---- MODULE Spec2Model ----
(***************************************************************************)
(* PGProbRatioModel (tensorforce/models/pg_prob_ratio_model.py): the       *)
(* likelihood-ratio loss, the reference/compare protocol an optimizer      *)
(* drives, and the model's construction and initialization.                *)
(*                                                                         *)
(* Numbers.  Values of the linear domain (probability ratios, rewards,     *)
(* gains, losses) are exact rationals <<n, d>> in lowest terms, d > 0.     *)
(* Values of the log domain (log-probabilities, the reference tensor) are  *)
(* pairs <<x2, x3>> of rationals standing for x2*ln 2 + x3*ln 3, so that   *)
(* sums, differences and means of logarithms are computed and tf.exp is a  *)
(* real conversion (2^x2 * 3^x3, defined when x2 and x3 are integers).     *)
(* Floating-point rounding is not modelled.                                *)
(***************************************************************************)
EXTENDS Integers, Sequences, FiniteSets, TLC

VARIABLES
    pc,          \* "start", "assert_failed", "constructed", "initialized",
                 \* "step", "loss_done", "referenced"
    lrc_arg,     \* the likelihood_ratio_clipping argument of __init__
    likelihood_ratio_clipping,   \* self.likelihood_ratio_clipping (line 60)
    reference,   \* self.reference (lines 62, 95)
    compare,     \* self.compare (lines 63, 100)
    distributions,   \* self.distributions: <<[name, dist], ...>> as inserted
    reg_cfg,     \* what fn_regularization_losses is configured to return
    args_out,    \* the last result of optimizer_arguments
    theta,       \* the policy parameters the network holds
    batch,       \* the batch of the current optimization step
    ref,         \* the reference tensor the optimizer holds in this step
    ref_theta,   \* the parameters tf_reference was evaluated under
    calls,       \* the tf_compare invocations of this step and their locals
    loss_out     \* the locals and result of tf_loss_per_instance

vars == <<pc, lrc_arg, likelihood_ratio_clipping, reference, compare,
          distributions, reg_cfg, args_out, theta, batch, ref, ref_theta,
          calls, loss_out>>

-----------------------------------------------------------------------------
(* Bounds of the model *)

MaxBatch == 2

MaxCompares == 2

-----------------------------------------------------------------------------
(* Exact rational arithmetic *)

RECURSIVE Gcd(_, _)
Gcd(a, b) == IF b = 0 THEN a ELSE Gcd(b, a % b)

Abs(n) == IF n < 0 THEN -n ELSE n

Rat(n, d) ==
    LET g == Gcd(Abs(n), Abs(d))
        s == IF d < 0 THEN -1 ELSE 1
    IN  <<(s * n) \div g, (s * d) \div g>>

Zero == <<0, 1>>

One == <<1, 1>>

RAdd(a, b) == Rat(a[1] * b[2] + b[1] * a[2], a[2] * b[2])

RNeg(a) == <<-a[1], a[2]>>

RSub(a, b) == RAdd(a, RNeg(b))

RMul(a, b) == Rat(a[1] * b[1], a[2] * b[2])

RDiv(a, b) == Rat(a[1] * b[2], a[2] * b[1])

RLeq(a, b) == a[1] * b[2] <= b[1] * a[2]

RLess(a, b) == a[1] * b[2] < b[1] * a[2]

RECURSIVE RSum(_)
RSum(s) == IF s = <<>> THEN Zero ELSE RAdd(Head(s), RSum(Tail(s)))

RECURSIVE Pow(_, _)
Pow(b, n) == IF n = 0 THEN 1 ELSE b * Pow(b, n - 1)

-----------------------------------------------------------------------------
(* Log-domain values x2*ln 2 + x3*ln 3 *)

LZero == <<Zero, Zero>>

LAdd(a, b) == <<RAdd(a[1], b[1]), RAdd(a[2], b[2])>>

LSub(a, b) == <<RSub(a[1], b[1]), RSub(a[2], b[2])>>

LScale(q, a) == <<RMul(q, a[1]), RMul(q, a[2])>>

RECURSIVE LSum(_)
LSum(s) == IF s = <<>> THEN LZero ELSE LAdd(Head(s), LSum(Tail(s)))

IntPow(b, n) == IF n >= 0 THEN <<Pow(b, n), 1>> ELSE <<1, Pow(b, -n)>>

RMin(a, b) == IF RLeq(a, b) THEN a ELSE b

RMax(a, b) == IF RLeq(a, b) THEN b ELSE a

-----------------------------------------------------------------------------
(* TensorFlow and util operations used by the model *)

\* tf.exp on a log-domain value; exact only on integer multiples of ln 2, ln 3
Exp(l) ==
    CASE l[1][2] = 1 /\ l[2][2] = 1 ->
         RMul(IntPow(2, l[1][1]), IntPow(3, l[2][1]))

\* Mutant: the stopped copy is a tensor of zeros instead of the input's value
StopGradientZeros(x) == LZero

\* tf.stop_gradient: the forward value of its input
StopGradient(x) == x

\* tf.clip_by_value(t, clip_value_min, clip_value_max)
ClipByValue(t, clip_value_min, clip_value_max) ==
    RMin(RMax(t, clip_value_min), clip_value_max)

\* tf.minimum
Minimum(x, y) == RMin(x, y)

\* util.prod of a shape
RECURSIVE Prod(_)
Prod(xs) == IF xs = <<>> THEN 1 ELSE Head(xs) * Prod(Tail(xs))

\* util.shape of a tensor holding one scalar per instance of batch b
Shape(b) == <<Len(b)>>

\* tf.reshape(tensor, shape=(-1, collapsed_size)) of a tensor of that shape
Reshape(t, shape, collapsed_size) ==
    [i \in 1..(Prod(shape) \div collapsed_size) |->
        [c \in 1..collapsed_size |-> t[(i - 1) * collapsed_size + c]]]

\* tf.concat(values, axis=1): row i is the concatenation of the values' rows i
RECURSIVE ConcatRow(_, _)
ConcatRow(values, i) ==
    IF values = <<>> THEN <<>>
    ELSE Head(values)[i] \o ConcatRow(Tail(values), i)

Concat(values, n) == [i \in 1..n |-> ConcatRow(values, i)]

\* tf.reduce_mean of one row, linear domain and log domain
ReduceMean(row) == RDiv(RSum(row), <<Len(row), 1>>)

LReduceMean(row) == LScale(<<1, Len(row)>>, LSum(row))

-----------------------------------------------------------------------------
(* Collaborators: policy network, distributions, reward estimation,        *)
(* regularization, environment                                             *)

Theta == {0, 1}

States == {0, 1}

Actions == {0, 1}

Ln(two, three) == <<<<two, 1>>, <<three, 1>>>>

\* log P(action 0) of each distribution kind, by state and policy parameters
LogP0 ==
    [kind \in {"A", "B"} |-> [s \in States |-> [th \in Theta |->
        CASE kind = "A" /\ s = 0 /\ th = 0 -> Ln(-1, 0)      \* 1/2
          [] kind = "A" /\ s = 0 /\ th = 1 -> Ln(-2, 1)      \* 3/4
          [] kind = "A" /\ s = 1           -> Ln(-1, 0)      \* 1/2
          [] kind = "B" /\ th = 0          -> Ln(-2, 0)      \* 1/4
          [] kind = "B" /\ s = 0 /\ th = 1 -> Ln(-1, 0)      \* 1/2
          [] kind = "B" /\ s = 1 /\ th = 1 -> Ln(-2, 1)]]]   \* 3/4

\* log P(action 1) = log(1 - P(action 0))
LogP1 ==
    [kind \in {"A", "B"} |-> [s \in States |-> [th \in Theta |->
        CASE kind = "A" /\ s = 0 /\ th = 0 -> Ln(-1, 0)      \* 1/2
          [] kind = "A" /\ s = 0 /\ th = 1 -> Ln(-2, 0)      \* 1/4
          [] kind = "A" /\ s = 1           -> Ln(-1, 0)      \* 1/2
          [] kind = "B" /\ th = 0          -> Ln(-2, 1)      \* 3/4
          [] kind = "B" /\ s = 0 /\ th = 1 -> Ln(-1, 0)      \* 1/2
          [] kind = "B" /\ s = 1 /\ th = 1 -> Ln(-2, 0)]]]   \* 1/4

\* network.apply(x=states, internals, update): the embedding of one instance
NetworkApply(th, s) == [th |-> th, s |-> s]

\* distribution.parameterize(x=embedding)
Parameterize(dist, embedding) ==
    [p0 |-> LScale(<<dist.scale, 1>>, LogP0[dist.kind][embedding.s][embedding.th]),
     p1 |-> LScale(<<dist.scale, 1>>, LogP1[dist.kind][embedding.s][embedding.th])]

\* distribution.log_probability(distr_params, action)
LogProbability(distr_params, action) ==
    IF action = 0 THEN distr_params.p0 ELSE distr_params.p1

\* The distributions mappings a model is built with, in insertion order
DistributionConfigs ==
    { << [name |-> "a", dist |-> [kind |-> "A", scale |-> 1]] >>,
      << [name |-> "b", dist |-> [kind |-> "B", scale |-> 2]],
         [name |-> "a", dist |-> [kind |-> "A", scale |-> 2]] >> }

Names(dists) == {dists[j].name : j \in 1..Len(dists)}

\* Environment: the raw reward of a transition
EnvReward(s, a) == IF a = s THEN <<1, 1>> ELSE <<-1, 1>>

Transitions(dists) ==
    { [state |-> s, actions |-> acts, reward |-> EnvReward(s, acts["a"])] :
        s \in States, acts \in [Names(dists) -> Actions] }

SeqsUpTo(S, n) == UNION {[1..m -> S] : m \in 1..n}

Batches(dists) == SeqsUpTo(Transitions(dists), MaxBatch)

\* State-value baseline subtracted by the reward estimation
Baseline(s) == IF s = 0 THEN Zero ELSE <<-1, 2>>

\* fn_reward_estimation(states, internals, terminal, reward, update)
fn_reward_estimation(b) ==
    [i \in 1..Len(b) |-> RSub(b[i].reward, Baseline(b[i].state))]

RegConfigs == {"none", "l2", "l2+entropy"}

\* fn_regularization_losses(states, internals, update): name -> scalar loss
fn_regularization_losses(cfg, th) ==
    CASE cfg = "none" -> [n \in {} |-> Zero]
      [] cfg = "l2" -> [n \in {"l2"} |-> Rat(1 + th, 40)]
      [] cfg = "l2+entropy" ->
           [n \in {"l2", "entropy"} |->
               IF n = "l2" THEN Rat(1 + th, 40) ELSE <<1, 10>>]

\* tf.add_n(inputs=list(losses.values()))
RECURSIVE AddN(_)
AddN(losses) ==
    IF DOMAIN losses = {} THEN Zero
    ELSE LET n == CHOOSE n \in DOMAIN losses : TRUE
         IN  RAdd(losses[n],
                  AddN([m \in DOMAIN losses \ {n} |-> losses[m]]))

-----------------------------------------------------------------------------
(* PGProbRatioModel: the clip threshold *)

\* likelihood_ratio_clipping: not yet an attribute, None, or a number
UnsetLrc == [tag |-> "unset", val |-> Zero]

NoneLrc == [tag |-> "None", val |-> Zero]

SomeLrc(v) == [tag |-> "num", val |-> v]

\* Mutant: the lower clip bound is 1 - eps
ClipMinOneMinusEps(eps) == RSub(One, eps)

\* clip_value_min=(1.0 / (1.0 + self.likelihood_ratio_clipping))
ClipMin(eps) == RDiv(One, RAdd(One, eps))

\* Mutant: the upper clip bound repeats the lower bound's expression
ClipMaxAsClipMin(eps) == RDiv(One, RAdd(One, eps))

\* clip_value_max=(1.0 + self.likelihood_ratio_clipping)
ClipMax(eps) == RAdd(One, eps)

-----------------------------------------------------------------------------
(* PGProbRatioModel: iteration over the distributions mapping *)

\* Python's order on the channel names
NameLess(x, y) == x = "a" /\ y = "b"

RECURSIVE Insert(_, _)
Insert(x, s) ==
    IF s = <<>> THEN <<x>>
    ELSE IF NameLess(Head(s), x) THEN <<Head(s)>> \o Insert(x, Tail(s))
    ELSE <<x>> \o s

RECURSIVE SortNames(_)
SortNames(s) == IF s = <<>> THEN <<>> ELSE Insert(Head(s), SortNames(Tail(s)))

\* self.distributions.items(): the names in insertion order
ItemNames(dists) == [j \in 1..Len(dists) |-> dists[j].name]

\* sorted(self.distributions)
SortedNames(dists) == SortNames(ItemNames(dists))

\* Mutant: the sorted names are zipped with the mapping's values, so a name
\* gets the distribution stored at its sorted position
DistributionAtSortedPosition(dists, name) ==
    dists[CHOOSE j \in 1..Len(dists) : SortedNames(dists)[j] = name].dist

\* self.distributions[name]
DistributionOf(dists, name) ==
    dists[CHOOSE j \in 1..Len(dists) : dists[j].name = name].dist

\* One channel's log-probability of the taken actions, reshaped to
\* (batch, collapsed_size)
ChannelLogProb(dists, name, b, th) ==
    LET distribution == DistributionOf(dists, name)
        log_prob ==
            [i \in 1..Len(b) |->
                LogProbability(
                    Parameterize(distribution, NetworkApply(th, b[i].state)),
                    b[i].actions[name])]
        collapsed_size == Prod(Tail(Shape(b)))
    IN  Reshape(log_prob, Shape(b), collapsed_size)

\* The summary log-probability per instance over the channels in sorted order
SummaryLogProb(dists, b, th) ==
    LET names == SortedNames(dists)
        log_probs ==
            [j \in 1..Len(names) |-> ChannelLogProb(dists, names[j], b, th)]
        rows == Concat(log_probs, Len(b))
    IN  [i \in 1..Len(b) |-> LReduceMean(rows[i])]

-----------------------------------------------------------------------------
(* PGProbRatioModel.tf_loss_per_instance *)

\* One channel's probability ratio against its gradient-stopped copy
ChannelProbRatio(dists, name, b, th) ==
    LET distribution == DistributionOf(dists, name)
        log_prob ==
            [i \in 1..Len(b) |->
                LogProbability(
                    Parameterize(distribution, NetworkApply(th, b[i].state)),
                    b[i].actions[name])]
        fixed_log_prob == [i \in 1..Len(b) |-> StopGradient(log_prob[i])]
        prob_ratio ==
            [i \in 1..Len(b) |-> Exp(LSub(log_prob[i], fixed_log_prob[i]))]
        collapsed_size == Prod(Tail(Shape(b)))
    IN  Reshape(prob_ratio, Shape(b), collapsed_size)

\* -prob_ratio * reward, or -min(prob_ratio * reward, clipped * reward)
LossPerInstance(lrc, prob_ratio, reward) ==
    IF lrc.tag = "None" THEN RNeg(RMul(prob_ratio, reward))
    ELSE LET clipped_prob_ratio ==
                 ClipByValue(prob_ratio, ClipMin(lrc.val), ClipMax(lrc.val))
         IN  RNeg(Minimum(RMul(prob_ratio, reward),
                          RMul(clipped_prob_ratio, reward)))

tf_loss_per_instance(dists, lrc, b, th, reward) ==
    LET names == ItemNames(dists)
        prob_ratios ==
            [j \in 1..Len(names) |-> ChannelProbRatio(dists, names[j], b, th)]
        rows == Concat(prob_ratios, Len(b))
        prob_ratio == [i \in 1..Len(b) |-> ReduceMean(rows[i])]
    IN  [reward |-> reward,
         prob_ratio |-> prob_ratio,
         loss |-> [i \in 1..Len(b) |->
                      LossPerInstance(lrc, prob_ratio[i], reward[i])]]

-----------------------------------------------------------------------------
(* PGProbRatioModel.tf_reference *)

\* Mutant: the channels' log-probabilities are summed instead of averaged
tf_reference_sum(dists, b, th) ==
    LET names == SortedNames(dists)
        log_probs ==
            [j \in 1..Len(names) |-> ChannelLogProb(dists, names[j], b, th)]
        rows == Concat(log_probs, Len(b))
    IN  [i \in 1..Len(b) |-> LSum(rows[i])]

tf_reference(dists, b, th) == SummaryLogProb(dists, b, th)

-----------------------------------------------------------------------------
(* PGProbRatioModel.tf_compare *)

\* clipped_prob_ratio; the ratio itself where no threshold is set
ClippedProbRatio(lrc, prob_ratio) ==
    IF lrc.tag = "None" THEN prob_ratio
    ELSE ClipByValue(prob_ratio, ClipMin(lrc.val), ClipMax(lrc.val))

\* Mutant: tf.maximum in place of tf.minimum
GainPerInstanceMaximum(lrc, prob_ratio, reward) ==
    IF lrc.tag = "None" THEN RMul(prob_ratio, reward)
    ELSE RMax(RMul(prob_ratio, reward),
              RMul(ClippedProbRatio(lrc, prob_ratio), reward))

\* gain_per_instance of one instance
GainPerInstance(lrc, prob_ratio, reward) ==
    IF lrc.tag = "None" THEN RMul(prob_ratio, reward)
    ELSE Minimum(RMul(prob_ratio, reward),
                 RMul(ClippedProbRatio(lrc, prob_ratio), reward))

\* Mutant: the losses are subtracted only when there is more than one
SubtractLossesIfSeveral(gain, losses) ==
    IF Cardinality(DOMAIN losses) > 1 THEN RSub(gain, AddN(losses)) ELSE gain

\* if len(losses) > 0: gain -= tf.add_n(inputs=list(losses.values()))
SubtractLosses(gain, losses) ==
    IF Cardinality(DOMAIN losses) > 0 THEN RSub(gain, AddN(losses)) ELSE gain

\* The locals of one evaluation of tf_compare and the value it returns
tf_compare(dists, lrc, cfg, reference_arg, b, th) ==
    LET reward == fn_reward_estimation(b)
        log_prob == SummaryLogProb(dists, b, th)
        prob_ratio ==
            [i \in 1..Len(b) |-> Exp(LSub(log_prob[i], reference_arg[i]))]
        gain_per_instance ==
            [i \in 1..Len(b) |-> GainPerInstance(lrc, prob_ratio[i], reward[i])]
        gain == ReduceMean(gain_per_instance)
        losses == fn_regularization_losses(cfg, th)
    IN  [reward |-> reward,
         prob_ratio |-> prob_ratio,
         clipped_prob_ratio |->
             [i \in 1..Len(b) |-> ClippedProbRatio(lrc, prob_ratio[i])],
         gain_per_instance |-> gain_per_instance,
         gain |-> gain,
         losses |-> losses,
         result |-> SubtractLosses(gain, losses)]

-----------------------------------------------------------------------------
(* PGProbRatioModel.__init__, initialize, optimizer_arguments *)

\* The values the constructor is called with
LrcArgs ==
    {NoneLrc, SomeLrc(<<-1, 5>>), SomeLrc(Zero), SomeLrc(<<1, 5>>),
     SomeLrc(One)}

\* Mutant: the assertion accepts zero
AssertLrcNonStrict(lrc) == lrc.tag = "None" \/ RLeq(Zero, lrc.val)

\* assert likelihood_ratio_clipping is None or likelihood_ratio_clipping > 0.0
AssertLrc(lrc) == lrc.tag = "None" \/ RLess(Zero, lrc.val)

\* The argument set of the superclass's optimizer_arguments
SuperOptimizerArguments ==
    [k \in {"time", "variables", "arguments", "fn_loss"} |->
        CASE k = "time" -> "timestep"
          [] k = "variables" -> "get_variables"
          [] k = "arguments" -> "batch"
          [] k = "fn_loss" -> "fn_loss"]

\* arguments['fn_reference'] = self.reference
\* arguments['fn_compare'] = self.compare
optimizer_arguments(ref_member, cmp_member) ==
    ("fn_compare" :> cmp_member) @@ ("fn_reference" :> ref_member)
        @@ SuperOptimizerArguments

NoArguments == [called |-> FALSE, after_initialize |-> FALSE,
                arguments |-> [k \in {} |-> "None"]]

NoOutput ==
    [reward |-> <<>>, prob_ratio |-> <<>>, clipped_prob_ratio |-> <<>>,
     gain_per_instance |-> <<>>, gain |-> Zero,
     losses |-> [n \in {} |-> Zero], result |-> Zero]

IdleCall == [st |-> "idle", th |-> 0, out |-> NoOutput]

NoLoss == [reward |-> <<>>, prob_ratio |-> <<>>, loss |-> <<>>]

Init ==
    /\ pc = "start"
    /\ lrc_arg = UnsetLrc
    /\ likelihood_ratio_clipping = UnsetLrc
    /\ reference = "unset"
    /\ compare = "unset"
    /\ distributions = <<>>
    /\ reg_cfg = "unset"
    /\ args_out = NoArguments
    /\ theta = 0
    /\ batch = <<>>
    /\ ref = <<>>
    /\ ref_theta = 0
    /\ calls = [k \in 1..MaxCompares |-> IdleCall]
    /\ loss_out = NoLoss

\* __init__: the assertion, the three assignments, then the superclass's
\* constructor, which takes the distributions and the regularization setup
Construct(lrc, dists, cfg) ==
    /\ pc = "start"
    /\ lrc_arg' = lrc
    /\ IF AssertLrc(lrc)
       THEN /\ likelihood_ratio_clipping' = lrc
            /\ reference' = "None"
            /\ compare' = "None"
            /\ distributions' = dists
            /\ reg_cfg' = cfg
            /\ pc' = "constructed"
       ELSE /\ pc' = "assert_failed"
            /\ UNCHANGED <<likelihood_ratio_clipping, reference, compare,
                           distributions, reg_cfg>>
    /\ UNCHANGED <<args_out, theta, batch, ref, ref_theta, calls, loss_out>>

\* Mutant: both templates are assigned to self.reference
InitializeReferenceTwice ==
    /\ pc = "constructed"
    /\ reference' = "template:compare:tf_compare"
    /\ pc' = "initialized"
    /\ UNCHANGED <<lrc_arg, likelihood_ratio_clipping, compare, distributions,
                   reg_cfg, args_out, theta, batch, ref, ref_theta, calls,
                   loss_out>>

\* initialize: the two templates
Initialize ==
    /\ pc = "constructed"
    /\ reference' = "template:reference:tf_reference"
    /\ compare' = "template:compare:tf_compare"
    /\ pc' = "initialized"
    /\ UNCHANGED <<lrc_arg, likelihood_ratio_clipping, distributions, reg_cfg,
                   args_out, theta, batch, ref, ref_theta, calls, loss_out>>

\* optimizer_arguments, called while the optimization is set up
OptimizerArguments ==
    /\ pc \in {"constructed", "initialized"}
    /\ args_out' = [called |-> TRUE,
                    after_initialize |-> (pc = "initialized"),
                    arguments |-> optimizer_arguments(reference, compare)]
    /\ UNCHANGED <<pc, lrc_arg, likelihood_ratio_clipping, reference, compare,
                   distributions, reg_cfg, theta, batch, ref, ref_theta,
                   calls, loss_out>>

-----------------------------------------------------------------------------
(* The optimizer's use of the model within one optimization step *)

\* An optimization step starts on a batch
StartStep(b) ==
    /\ pc = "initialized"
    /\ args_out.called
    /\ args_out.arguments["fn_reference"] # "None"
    /\ args_out.arguments["fn_compare"] # "None"
    /\ batch' = b
    /\ pc' = "step"
    /\ UNCHANGED <<lrc_arg, likelihood_ratio_clipping, reference, compare,
                   distributions, reg_cfg, args_out, theta, ref, ref_theta,
                   calls, loss_out>>

\* The loss path: one evaluation of tf_loss_per_instance
LossCall(estimated) ==
    /\ pc = "step"
    /\ loss_out' =
         tf_loss_per_instance(
             distributions, likelihood_ratio_clipping, batch, theta,
             IF estimated THEN fn_reward_estimation(batch)
             ELSE [i \in 1..Len(batch) |-> batch[i].reward])
    /\ pc' = "loss_done"
    /\ UNCHANGED <<lrc_arg, likelihood_ratio_clipping, reference, compare,
                   distributions, reg_cfg, args_out, theta, batch, ref,
                   ref_theta, calls>>

\* fn_reference: one evaluation of tf_reference under the current parameters
ReferenceCall ==
    /\ pc = "step"
    /\ ref' = tf_reference(distributions, batch, theta)
    /\ ref_theta' = theta
    /\ pc' = "referenced"
    /\ UNCHANGED <<lrc_arg, likelihood_ratio_clipping, reference, compare,
                   distributions, reg_cfg, args_out, theta, batch, calls,
                   loss_out>>

\* fn_compare is invoked on candidate parameters th
CompareBegin(k, th) ==
    /\ pc = "referenced"
    /\ calls[k].st = "idle"
    /\ calls' = [calls EXCEPT ![k] = [st |-> "running", th |-> th,
                                      out |-> NoOutput]]
    /\ UNCHANGED <<pc, lrc_arg, likelihood_ratio_clipping, reference, compare,
                   distributions, reg_cfg, args_out, theta, batch, ref,
                   ref_theta, loss_out>>

\* Mutant: the invocation overwrites the reference with its own log_prob
CompareEndOverwritesReference(k) ==
    /\ calls[k].st = "running"
    /\ calls' = [calls EXCEPT ![k] =
                   [st |-> "done", th |-> calls[k].th,
                    out |-> tf_compare(distributions,
                                       likelihood_ratio_clipping, reg_cfg,
                                       ref, batch, calls[k].th)]]
    /\ ref' = SummaryLogProb(distributions, batch, calls[k].th)
    /\ UNCHANGED <<pc, lrc_arg, likelihood_ratio_clipping, reference, compare,
                   distributions, reg_cfg, args_out, theta, batch,
                   ref_theta, loss_out>>

\* The invocation evaluates tf_compare and returns
CompareEnd(k) ==
    /\ calls[k].st = "running"
    /\ calls' = [calls EXCEPT ![k] =
                   [st |-> "done", th |-> calls[k].th,
                    out |-> tf_compare(distributions,
                                       likelihood_ratio_clipping, reg_cfg,
                                       ref, batch, calls[k].th)]]
    /\ UNCHANGED <<pc, lrc_arg, likelihood_ratio_clipping, reference, compare,
                   distributions, reg_cfg, args_out, theta, batch, ref,
                   ref_theta, loss_out>>

\* The step ends: the optimizer leaves parameters th, the reference is dropped
EndStep(th) ==
    /\ pc \in {"referenced", "loss_done"}
    /\ \A k \in 1..MaxCompares : calls[k].st # "running"
    /\ theta' = th
    /\ batch' = <<>>
    /\ ref' = <<>>
    /\ ref_theta' = 0
    /\ calls' = [k \in 1..MaxCompares |-> IdleCall]
    /\ loss_out' = NoLoss
    /\ pc' = "initialized"
    /\ UNCHANGED <<lrc_arg, likelihood_ratio_clipping, reference, compare,
                   distributions, reg_cfg, args_out>>

\* Batches of a single transition
SingleBatches(dists) == [1..1 -> Transitions(dists)]

\* Concurrent compare invocations, on batches of one transition
Next ==
    \/ \E lrc \in LrcArgs, dists \in DistributionConfigs, cfg \in RegConfigs :
          Construct(lrc, dists, cfg)
    \/ Initialize
    \/ OptimizerArguments
    \/ pc = "initialized" /\ \E b \in SingleBatches(distributions) : StartStep(b)
    \/ \E e \in BOOLEAN : LossCall(e)
    \/ ReferenceCall
    \/ \E k \in 1..MaxCompares, th \in Theta : CompareBegin(k, th)
    \/ \E k \in 1..MaxCompares : CompareEnd(k)
    \/ \E th \in Theta : EndStep(th)

Spec == Init /\ [][Next]_vars

\* One compare invocation at a time, on every batch up to MaxBatch
NextSeq ==
    \/ \E lrc \in LrcArgs, dists \in DistributionConfigs, cfg \in RegConfigs :
          Construct(lrc, dists, cfg)
    \/ Initialize
    \/ OptimizerArguments
    \/ pc = "initialized" /\ \E b \in Batches(distributions) : StartStep(b)
    \/ \E e \in BOOLEAN : LossCall(e)
    \/ ReferenceCall
    \/ \E th \in Theta : CompareBegin(1, th)
    \/ CompareEnd(1)
    \/ \E th \in Theta : EndStep(th)

SpecSeq == Init /\ [][NextSeq]_vars

-----------------------------------------------------------------------------
(* Properties *)

Slots == 1..MaxCompares

Done(k) == calls[k].st = "done"

Instances == 1..Len(batch)

\* clamp(x, lo, hi), written out
Clamp(x, lo, hi) == IF RLess(x, lo) THEN lo ELSE IF RLess(hi, x) THEN hi ELSE x

Lower(eps) == Rat(eps[2], eps[1] + eps[2])

Upper(eps) == Rat(eps[1] + eps[2], eps[2])

Smaller(x, y) == IF RLess(y, x) THEN y ELSE x

Mean(s) == Rat(RSum(s)[1], RSum(s)[2] * Len(s))

\* C1: every completed compare has, per instance, ratio_i = exp(log_prob_i -
\* reference_i) and gain_i = ratio_i * reward_i without a clip threshold, and
\* gain_i = min(ratio_i * reward_i, clamp(ratio_i, 1/(1+eps), 1+eps) * reward_i)
\* with threshold eps, where reward_i is the estimated reward; the gain before
\* regularization is the mean of the gain_i.
C1_GainFormula ==
    \A k \in Slots : Done(k) =>
        LET o == calls[k].out
            lrc == likelihood_ratio_clipping
            reward == fn_reward_estimation(batch)
            log_prob == SummaryLogProb(distributions, batch, calls[k].th)
            expected(i) ==
                LET x == RMul(o.prob_ratio[i], reward[i])
                IN  IF lrc.tag = "None" THEN x
                    ELSE Smaller(x,
                           RMul(Clamp(o.prob_ratio[i], Lower(lrc.val),
                                      Upper(lrc.val)), reward[i]))
        IN  /\ Len(o.prob_ratio) = Len(batch)
            /\ Len(o.gain_per_instance) = Len(batch)
            /\ \A i \in Instances :
                  /\ o.prob_ratio[i] = Exp(LSub(log_prob[i], ref[i]))
                  /\ o.gain_per_instance[i] = expected(i)
            /\ o.gain = Mean(o.gain_per_instance)

\* C1 witness: a completed compare under a threshold, on two instances, with
\* a ratio outside the clip interval and an estimated reward that differs
\* from the raw reward
C1_Witness ==
    \E k \in Slots :
        /\ Done(k)
        /\ likelihood_ratio_clipping.tag = "num"
        /\ Len(batch) = 2
        /\ \E i \in Instances :
              calls[k].out.clipped_prob_ratio[i] # calls[k].out.prob_ratio[i]
        /\ \E i \in Instances : calls[k].out.reward[i] # batch[i].reward

\* The scenario of C2: batch size 2, one channel, estimated reward [1, -1],
\* eps = 0.2, ratio [1.5, 0.5]
C2_Scenario(k) ==
    /\ Done(k)
    /\ Len(batch) = 2
    /\ Len(distributions) = 1
    /\ likelihood_ratio_clipping = SomeLrc(<<1, 5>>)
    /\ calls[k].out.reward = << <<1, 1>>, <<-1, 1>> >>
    /\ calls[k].out.prob_ratio = << <<3, 2>>, <<1, 2>> >>

ClippedProducts(o) ==
    [i \in 1..Len(o.reward) |-> RMul(o.clipped_prob_ratio[i], o.reward[i])]

\* C2 as stated: in the scenario the clipped ratio is [1.2, 0.8], the clipped
\* products are [1.2, -0.4], the per-instance gain is [1.2, -0.5] and the
\* gain before regularization is 0.35.
C2_AsStated ==
    \A k \in Slots : C2_Scenario(k) =>
        LET o == calls[k].out
        IN  /\ o.clipped_prob_ratio = << <<6, 5>>, <<4, 5>> >>
            /\ ClippedProducts(o) = << <<6, 5>>, <<-2, 5>> >>
            /\ o.gain_per_instance = << <<6, 5>>, <<-1, 2>> >>
            /\ o.gain = <<7, 20>>

\* C2 amended: in the scenario the clipped ratio is [6/5, 5/6], the clipped
\* products are [6/5, -5/6], the per-instance gain is [6/5, -5/6] and the
\* gain before regularization is 11/60.
C2_Amended ==
    \A k \in Slots : C2_Scenario(k) =>
        LET o == calls[k].out
        IN  /\ o.clipped_prob_ratio = << <<6, 5>>, <<5, 6>> >>
            /\ ClippedProducts(o) = << <<6, 5>>, <<-5, 6>> >>
            /\ o.gain_per_instance = << <<6, 5>>, <<-5, 6>> >>
            /\ o.gain = <<11, 60>>

\* C2 witness: the scenario has been evaluated
C2_Witness == \E k \in Slots : C2_Scenario(k)

\* C3: a compare on the parameters the reference was computed with has
\* ratio 1 in every instance, with or without a threshold, and returns the
\* mean of the estimated rewards minus the sum of the regularization losses.
C3_SameParametersRatioOne ==
    \A k \in Slots : (Done(k) /\ calls[k].th = ref_theta) =>
        LET o == calls[k].out
            losses == fn_regularization_losses(reg_cfg, calls[k].th)
        IN  /\ \A i \in Instances : o.prob_ratio[i] = One
            /\ o.result = RSub(Mean(fn_reward_estimation(batch)), AddN(losses))

\* C3 witness: such a compare, under a threshold, over two channels and two
\* instances, with two regularization losses
C3_Witness ==
    \E k \in Slots :
        /\ Done(k)
        /\ calls[k].th = ref_theta
        /\ likelihood_ratio_clipping.tag = "num"
        /\ Len(distributions) = 2
        /\ Len(batch) = 2
        /\ reg_cfg = "l2+entropy"

\* C4: every evaluation of tf_loss_per_instance has ratio 1 in every instance
\* and returns loss_i = -reward_i, with or without a threshold.
C4_LossIsMinusReward ==
    pc = "loss_done" =>
        /\ Len(loss_out.loss) = Len(batch)
        /\ \A i \in Instances :
              /\ loss_out.prob_ratio[i] = One
              /\ loss_out.loss[i] = <<-(loss_out.reward[i][1]),
                                      loss_out.reward[i][2]>>

\* C4 witness: a loss evaluation under a threshold, over two channels, with
\* rewards of both signs
C4_Witness ==
    /\ pc = "loss_done"
    /\ likelihood_ratio_clipping.tag = "num"
    /\ Len(distributions) = 2
    /\ \E i, j \in Instances :
          loss_out.reward[i][1] > 0 /\ loss_out.reward[j][1] < 0

\* C5: compare returns the mean gain minus the sum of the regularization
\* losses when there are any (7/20 with {l2: 1/20} gives 3/10), and the mean
\* gain itself when the mapping is empty.
C5_RegularizationSubtracted ==
    \A k \in Slots : Done(k) =>
        LET o == calls[k].out
        IN  /\ o.losses = fn_regularization_losses(reg_cfg, calls[k].th)
            /\ DOMAIN o.losses = {} => o.result = o.gain
            /\ DOMAIN o.losses = {"l2"} =>
                  o.result = RSub(o.gain, o.losses["l2"])
            /\ DOMAIN o.losses = {"l2", "entropy"} =>
                  o.result =
                      RSub(RSub(o.gain, o.losses["l2"]), o.losses["entropy"])
            /\ (o.gain = <<7, 20>> /\ DOMAIN o.losses = {"l2"}
                   /\ o.losses["l2"] = <<1, 20>>) => o.result = <<3, 10>>

\* C5 witness: a compare with mean gain 7/20 and losses {l2: 1/20}
C5_Witness ==
    \E k \in Slots :
        /\ Done(k)
        /\ calls[k].out.gain = <<7, 20>>
        /\ DOMAIN calls[k].out.losses = {"l2"}
        /\ calls[k].out.losses["l2"] = <<1, 20>>

\* C6: a construction with a threshold <= 0 fails before anything is stored
\* and before the superclass is constructed; a construction with None or a
\* threshold > 0 stores exactly the given value; no model holds a
\* non-positive threshold.
C6_ConstructionCheck ==
    /\ pc = "assert_failed" =>
          /\ lrc_arg.tag = "num" /\ lrc_arg.val[1] <= 0
          /\ likelihood_ratio_clipping = UnsetLrc
          /\ reference = "unset" /\ compare = "unset"
          /\ distributions = <<>> /\ reg_cfg = "unset"
    /\ pc \notin {"start", "assert_failed"} =>
          /\ lrc_arg.tag = "None" \/ lrc_arg.val[1] > 0
          /\ likelihood_ratio_clipping = lrc_arg
    /\ likelihood_ratio_clipping.tag = "num" =>
          likelihood_ratio_clipping.val[1] > 0

\* C6 witness: a construction with threshold 0 has failed
C6_Witness == pc = "assert_failed" /\ lrc_arg = SomeLrc(Zero)

EpsValues == {<<1, 10>>, <<1, 5>>, <<1, 2>>, <<1, 1>>, <<2, 1>>}

\* C7: for the ratio and the estimated reward of every instance of a
\* completed compare with reward_i > 0, and thresholds eps1 <= eps2, the
\* gain_i under eps2 is at least the gain_i under eps1.
C7_GainMonotoneInEps ==
    \A k \in Slots : Done(k) =>
        \A i \in Instances : calls[k].out.reward[i][1] > 0 =>
            \A e1, e2 \in EpsValues : RLeq(e1, e2) =>
                RLeq(GainPerInstance(SomeLrc(e1), calls[k].out.prob_ratio[i],
                                     calls[k].out.reward[i]),
                     GainPerInstance(SomeLrc(e2), calls[k].out.prob_ratio[i],
                                     calls[k].out.reward[i]))

\* C7 witness: a completed compare under a threshold with a positive reward
\* whose gain_i grows strictly from eps = 1/5 to eps = 1
C7_Witness ==
    \E k \in Slots :
        /\ Done(k)
        /\ likelihood_ratio_clipping.tag = "num"
        /\ \E i \in Instances :
              /\ calls[k].out.reward[i][1] > 0
              /\ RLess(GainPerInstance(SomeLrc(<<1, 5>>),
                                       calls[k].out.prob_ratio[i],
                                       calls[k].out.reward[i]),
                       GainPerInstance(SomeLrc(One),
                                       calls[k].out.prob_ratio[i],
                                       calls[k].out.reward[i]))

\* The insertion orders of a distributions mapping
InsertionOrders(dists) ==
    {d \in [1..Len(dists) -> {dists[j] : j \in 1..Len(dists)}] :
        \A x, y \in 1..Len(dists) : x # y => d[x] # d[y]}

\* C8: under every insertion order of the distributions mapping, reference
\* returns the same per-instance value and compare the same gain.
C8_InsertionOrderInvariant ==
    pc = "referenced" =>
        \A d \in InsertionOrders(distributions) :
            /\ tf_reference(d, batch, ref_theta) = ref
            /\ \A k \in Slots : Done(k) =>
                  tf_compare(d, likelihood_ratio_clipping, reg_cfg, ref,
                             batch, calls[k].th).result = calls[k].out.result

\* C8 witness: reference and compare have run over two channels whose
\* insertion order is not the sorted order, on two instances
C8_Witness ==
    /\ pc = "referenced"
    /\ Len(distributions) = 2
    /\ ItemNames(distributions) # SortedNames(distributions)
    /\ Len(batch) = 2
    /\ \E k \in Slots : Done(k) /\ calls[k].th # ref_theta

\* C9: a step of a compare invocation leaves the reference, the threshold,
\* the distributions and the batch unchanged, and after it every completed
\* invocation's result is the result of tf_compare run alone on the
\* reference, the batch and that invocation's parameters.
C9_CompareIsolation ==
    [][(calls' # calls /\ pc' = "referenced") =>
          /\ ref' = ref
          /\ likelihood_ratio_clipping' = likelihood_ratio_clipping
          /\ distributions' = distributions
          /\ batch' = batch
          /\ \A k \in Slots : calls'[k].st = "done" =>
                calls'[k].out.result =
                    tf_compare(distributions', likelihood_ratio_clipping',
                               reg_cfg', ref', batch', calls'[k].th).result]_vars

\* C9 witness: two invocations on different parameters have completed with
\* different results
C9_Witness ==
    \E k1, k2 \in Slots :
        /\ Done(k1) /\ Done(k2)
        /\ calls[k1].th # calls[k2].th
        /\ calls[k1].out.result # calls[k2].out.result

\* C10: a result of optimizer_arguments obtained after initialize is the
\* superclass's argument set, unchanged, plus fn_reference and fn_compare
\* bound to the two templates; the two members are None only between
\* construction and initialize.
C10_OptimizerArguments ==
    /\ (args_out.called /\ args_out.after_initialize) =>
          LET a == args_out.arguments
          IN  /\ DOMAIN a =
                    DOMAIN SuperOptimizerArguments
                        \cup {"fn_reference", "fn_compare"}
              /\ \A key \in DOMAIN SuperOptimizerArguments :
                    a[key] = SuperOptimizerArguments[key]
              /\ a["fn_reference"] = "template:reference:tf_reference"
              /\ a["fn_compare"] = "template:compare:tf_compare"
              /\ a["fn_reference"] = reference
              /\ a["fn_compare"] = compare
    /\ (reference = "None" \/ compare = "None") => pc = "constructed"
    /\ pc \in {"initialized", "step", "loss_done", "referenced"} =>
          /\ reference = "template:reference:tf_reference"
          /\ compare = "template:compare:tf_compare"

\* C10 witness: arguments obtained after initialize are in use in a step
C10_Witness ==
    /\ args_out.called /\ args_out.after_initialize
    /\ pc = "referenced"

====
